---- MODULE Spec2Model ----
(***************************************************************************)
(* A model of the utility functions of the repository:                     *)
(*   - the structural operations on nested objects (deepMerge, deepEqual,  *)
(*     deepClone, getNestedValue, setNestedValue), over an explicit heap   *)
(*     of containers so that identity, sharing and mutation are visible;   *)
(*   - the timing wrappers (debounce, throttle), over a timer table and a  *)
(*     discrete clock.                                                     *)
(* JavaScript values are either primitives or references to a container    *)
(* of the heap.  A container keeps its own properties in Object.keys       *)
(* order.                                                                  *)
(***************************************************************************)
EXTENDS Integers, Sequences, FiniteSets, TLC

VARIABLES
  heap,           \* the containers allocated so far; an address is an index
  x,              \* first argument / the object under test (a value)
  y,              \* second argument / the clone (a value)
  res,            \* what the last call returned
  pc,             \* which call was made last
  arg,            \* the arguments of the calls made
  pre,            \* the heap as it was before the last mutating call
  threw,          \* whether the last call raised a TypeError/SyntaxError
  now,            \* the clock, in milliseconds
  timers,         \* the platform's table of pending timeouts
  debounceTimer,  \* closure variable of debounce: the last handle
  inThrottle,     \* closure variable of throttle
  wait,           \* the delay / limit the wrapper was created with
  log             \* wrapper calls and invocations of func, in order

objVars == <<heap, x, y, res, pc, arg, pre, threw>>
timeVars == <<now, timers, debounceTimer, inThrottle, wait, log>>
vars == <<heap, x, y, res, pc, arg, pre, threw,
          now, timers, debounceTimer, inThrottle, wait, log>>

----------------------------------------------------------------------------
(* Bounds of the model. *)

MaxArrLen == 1
MaxPathLen == 3
MaxSets == 2
MaxTime == 5
MaxCalls == 3
MaxWait == 2

----------------------------------------------------------------------------
(* JavaScript values. *)

Prim(p) == [k |-> "prim", p |-> p]
Ref(a) == [k |-> "ref", a |-> a]

Undefined == Prim("undefined")
Null == Prim("null")
NaN == Prim("NaN")
False == Prim("false")
True == Prim("true")
Zero == Prim("0")
One == Prim("1")
Two == Prim("2")
EmptyStr == Prim("''")
Str == Prim("'s'")

IsRef(v) == v.k = "ref"

\* ToBoolean: what `v && ...` and `v || ...` test.
Truthy(v) ==
  IsRef(v) \/ v.p \notin {"undefined", "null", "false", "0", "NaN", "''"}

\* typeof v === 'object' (true of null, of arrays and of plain objects).
TypeofObject(v) == IsRef(v) \/ v = Null

\* a === b: same primitive (NaN excepted) or same reference.
StrictEq(a, b) == a = b /\ a # NaN

\* The canonical numeric keys, ascending: an array's index i is IndexKeys[i+1].
IndexKeys == <<"0", "1", "2", "3">>

IsIndexKey(key) == \E i \in 1..Len(IndexKeys) : IndexKeys[i] = key

KeyRank(key) ==
  IF IsIndexKey(key)
  THEN CHOOSE i \in 1..Len(IndexKeys) : IndexKeys[i] = key
  ELSE Len(IndexKeys) + 1

EmptyObject == [arr |-> FALSE, ents |-> <<>>]

\* Position of own property `key` in container c, 0 when it has none.
KeyPos(c, key) ==
  IF \E i \in 1..Len(c.ents) : c.ents[i].key = key
  THEN CHOOSE i \in 1..Len(c.ents) : c.ents[i].key = key
  ELSE 0

\* Object.keys(c): own enumerable keys, numeric keys first, then insertion order.
ObjectKeys(c) == [i \in 1..Len(c.ents) |-> c.ents[i].key]

\* v.hasOwnProperty(key) for v an object.
HasOwn(h, v, key) == IsRef(v) /\ KeyPos(h[v.a], key) > 0

\* v[key] for v not null/undefined: own property of a container, a character of
\* a string, undefined otherwise.
GetProp(h, v, key) ==
  IF IsRef(v)
  THEN LET c == h[v.a]
           i == KeyPos(c, key)
       IN IF i > 0 THEN c.ents[i].val ELSE Undefined
  ELSE IF v = Str /\ key = "0" THEN Str ELSE Undefined

\* c[key] = val on a container: overwrite in place, else add the key (a numeric
\* key goes among the numeric keys, any other key at the end).
PutProp(c, key, val) ==
  LET i == KeyPos(c, key)
      e == [key |-> key, val |-> val]
      n == Cardinality({j \in 1..Len(c.ents) : KeyRank(c.ents[j].key) < KeyRank(key)})
  IN IF i > 0 THEN [c EXCEPT !.ents[i].val = val]
     ELSE IF IsIndexKey(key)
          THEN [c EXCEPT !.ents = SubSeq(@, 1, n) \o <<e>> \o SubSeq(@, n + 1, Len(@))]
          ELSE [c EXCEPT !.ents = Append(@, e)]

\* target[key] = val.  On a container it stores; on null/undefined it raises;
\* on any other primitive it raises in strict mode and is ignored otherwise.
Assign(h, target, key, val, strict) ==
  IF IsRef(target)
  THEN [h |-> [h EXCEPT ![target.a] = PutProp(@, key, val)], threw |-> FALSE]
  ELSE IF target \in {Null, Undefined} THEN [h |-> h, threw |-> TRUE]
  ELSE [h |-> h, threw |-> strict]

----------------------------------------------------------------------------
(* Literals: a nested structure written down by the caller is a tree; Build  *)
(* allocates it, TreeOf reads the structure reachable from a value back.     *)

IsLeaf(t) == "k" \in DOMAIN t

RECURSIVE Build(_, _)
RECURSIVE BuildEnts(_, _, _, _)
Build(h, t) ==
  IF IsLeaf(t) THEN [h |-> h, v |-> t]
  ELSE LET r == BuildEnts(h, t.ents, 1, <<>>)
       IN [h |-> Append(r.h, [arr |-> t.arr, ents |-> r.ents]),
           v |-> Ref(Len(r.h) + 1)]

BuildEnts(h, ents, i, acc) ==
  IF i > Len(ents) THEN [h |-> h, ents |-> acc]
  ELSE LET r == Build(h, ents[i].val)
       IN BuildEnts(r.h, ents, i + 1,
                    Append(acc, [key |-> ents[i].key, val |-> r.v]))

RECURSIVE TreeOf(_, _)
TreeOf(h, v) ==
  IF ~IsRef(v) THEN v
  ELSE LET c == h[v.a]
       IN [arr |-> c.arr,
           ents |-> [i \in 1..Len(c.ents) |->
                       [key |-> c.ents[i].key, val |-> TreeOf(h, c.ents[i].val)]]]

\* The containers reachable from a value.
RECURSIVE Reach(_, _)
Reach(h, v) ==
  IF ~IsRef(v) THEN {}
  ELSE {v.a} \cup UNION {Reach(h, h[v.a].ents[i].val) : i \in 1..Len(h[v.a].ents)}

Absent == [k |-> "absent"]

\* The object literals with keys among ks (in that order) and values in V.
ObjectsOver(ks, V) ==
  {[arr |-> FALSE,
    ents |-> SelectSeq([i \in 1..Len(ks) |-> [key |-> ks[i], val |-> f[i]]],
                       LAMBDA e : e.val # Absent)] :
     f \in [1..Len(ks) -> V \cup {Absent}]}

\* The array literals of at most n elements drawn from V.
ArraysOver(V, n) ==
  {[arr |-> TRUE,
    ents |-> [i \in 1..Len(s) |-> [key |-> IndexKeys[i], val |-> s[i]]]] :
     s \in UNION {[1..m -> V] : m \in 0..n}}

\* A dot-separated path string, as its sequence of characters.
RECURSIVE Join(_)
Join(segs) ==
  IF Len(segs) = 0 THEN <<>>
  ELSE IF Len(segs) = 1 THEN <<segs[1]>>
  ELSE <<segs[1], ".">> \o Join(Tail(segs))

PathsOver(K, n) == {Join(s) : s \in UNION {[1..m -> K] : m \in 1..n}}

----------------------------------------------------------------------------
(* getNestedValue / setNestedValue *)

\* path.split('.')
RECURSIVE SplitFrom(_, _, _, _)
SplitFrom(path, i, cur, acc) ==
  IF i > Len(path) THEN Append(acc, cur)
  ELSE IF path[i] = "." THEN SplitFrom(path, i + 1, "", Append(acc, cur))
  ELSE SplitFrom(path, i + 1, cur \o path[i], acc)

Split(path) == SplitFrom(path, 1, "", <<>>)

\* parts.reduce((acc, part) => acc && acc[part], obj)
RECURSIVE Reduce(_, _, _, _)
Reduce(h, acc, parts, i) ==
  IF i > Len(parts) THEN acc
  ELSE Reduce(h, IF Truthy(acc) THEN GetProp(h, acc, parts[i]) ELSE acc, parts, i + 1)

getNestedValue(h, obj, path) == Reduce(h, obj, Split(path), 1)

\* A variant of the loop that forgets `current = current[parts[i]]`.
RECURSIVE SetLoopStale(_, _, _, _, _, _)
SetLoopStale(h, current, parts, i, value, strict) ==
  IF i > Len(parts) THEN [h |-> h, threw |-> FALSE]
  ELSE IF i = Len(parts) THEN Assign(h, current, parts[i], value, strict)
  ELSE LET old == GetProp(h, current, parts[i])
           h1 == IF Truthy(old) THEN h ELSE Append(h, EmptyObject)
           nv == IF Truthy(old) THEN old ELSE Ref(Len(h) + 1)
           w == Assign(h1, current, parts[i], nv, strict)
       IN IF w.threw THEN w
          ELSE SetLoopStale(w.h, current, parts, i + 1, value, strict)

\* The for loop of setNestedValue from index i (1-based), `current` as it is
\* there.  Returns the heap and whether the call raised.
RECURSIVE SetLoop(_, _, _, _, _, _)
SetLoop(h, current, parts, i, value, strict) ==
  IF i > Len(parts) THEN [h |-> h, threw |-> FALSE]
  ELSE IF current \in {Null, Undefined} THEN [h |-> h, threw |-> TRUE]
  ELSE IF i = Len(parts) THEN Assign(h, current, parts[i], value, strict)
  ELSE LET old == GetProp(h, current, parts[i])
           h1 == IF Truthy(old) THEN h ELSE Append(h, EmptyObject)
           nv == IF Truthy(old) THEN old ELSE Ref(Len(h) + 1)
           w == Assign(h1, current, parts[i], nv, strict)
       IN IF w.threw THEN w
          ELSE SetLoop(w.h, GetProp(w.h, current, parts[i]), parts, i + 1,
                       value, strict)

setNestedValue(h, obj, path, value, strict) ==
  SetLoop(h, obj, Split(path), 1, value, strict)

----------------------------------------------------------------------------
(* The timing wrappers are at rest in the specifications of the structural  *)
(* operations, and the other way round.                                     *)

TimeIdle ==
  /\ now = 0
  /\ timers = {}
  /\ debounceTimer = 0
  /\ inThrottle = FALSE
  /\ wait = 0
  /\ log = <<>>

ObjIdle ==
  /\ heap = <<>>
  /\ x = Undefined
  /\ y = Undefined
  /\ res = Undefined
  /\ pc = "idle"
  /\ arg = <<>>
  /\ pre = <<>>
  /\ threw = FALSE

----------------------------------------------------------------------------
(* Specification of the path accessors: one object, then setNestedValue     *)
(* and/or getNestedValue on it.                                             *)

PathKeys == {"a", "b"}

PathAtoms == {Null, Zero, One, EmptyStr, Str, False, True}

PathInner ==
  {Zero, One} \cup ObjectsOver(<<"a", "b">>, {Zero, One})
              \cup ArraysOver({Zero, One}, MaxArrLen)

PathObjects == ObjectsOver(<<"a", "b">>, PathAtoms \cup PathInner)

Paths == PathsOver(PathKeys, MaxPathLen)

\* The values stored by setNestedValue: primitives and a fresh object {a: 1}.
SetValues ==
  {Zero, False, EmptyStr, Null, One,
   [arr |-> FALSE, ents |-> <<[key |-> "a", val |-> One]>>]}

\* The paths read after a set: the path set and its proper prefixes.
Prefixes(path) ==
  {Join(SubSeq(Split(path), 1, n)) : n \in 1..Len(Split(path))}

InitPath ==
  /\ \E t \in PathObjects :
       LET b == Build(<<>>, t) IN heap = b.h /\ x = b.v
  /\ y = Undefined
  /\ res = Undefined
  /\ pc = "init"
  /\ arg = [path |-> <<>>, value |-> Undefined, gpath |-> <<>>]
  /\ pre = <<>>
  /\ threw = FALSE
  /\ TimeIdle

SetNested ==
  /\ pc = "init"
  /\ \E path \in Paths, t \in SetValues, strict \in BOOLEAN :
       LET b == Build(heap, t)
           r == setNestedValue(b.h, x, path, b.v, strict)
       IN /\ heap' = r.h
          /\ threw' = r.threw
          /\ pre' = b.h
          /\ arg' = [arg EXCEPT !.path = path, !.value = b.v]
  /\ pc' = "set"
  /\ res' = Undefined
  /\ UNCHANGED <<x, y>>
  /\ UNCHANGED timeVars

GetNested ==
  /\ pc \in {"init", "set"}
  /\ \E path \in (IF pc = "init" THEN Paths ELSE Prefixes(arg.path)) :
       /\ res' = getNestedValue(heap, x, path)
       /\ arg' = [arg EXCEPT !.gpath = path]
  /\ pc' = IF pc = "init" THEN "got" ELSE "setgot"
  /\ UNCHANGED <<heap, x, y, pre, threw>>
  /\ UNCHANGED timeVars

NextPath == SetNested \/ GetNested

SpecPath == InitPath /\ [][NextPath]_vars

----------------------------------------------------------------------------
(* Properties of the path accessors. *)

IsMapping(h, v) == IsRef(v) /\ ~h[v.a].arr

\* Every intermediate (non-final) segment from index i on is missing or a mapping.
RECURSIVE NoCollision(_, _, _, _)
NoCollision(h, cur, parts, i) ==
  IF i >= Len(parts) THEN TRUE
  ELSE IF ~HasOwn(h, cur, parts[i]) THEN TRUE
  ELSE LET v == GetProp(h, cur, parts[i])
       IN IsMapping(h, v) /\ NoCollision(h, v, parts, i + 1)

\* Some intermediate segment exists and holds a primitive (the ones before it
\* being mappings).
RECURSIVE PrimitiveCollision(_, _, _, _)
PrimitiveCollision(h, cur, parts, i) ==
  IF i >= Len(parts) THEN FALSE
  ELSE IF ~HasOwn(h, cur, parts[i]) THEN FALSE
  ELSE LET v == GetProp(h, cur, parts[i])
       IN IF IsRef(v) THEN IsMapping(h, v) /\ PrimitiveCollision(h, v, parts, i + 1)
          ELSE TRUE

\* Every segment from index i on is an own key of a container.
RECURSIVE Resolves(_, _, _, _)
Resolves(h, cur, parts, i) ==
  IF i > Len(parts) THEN TRUE
  ELSE /\ HasOwn(h, cur, parts[i])
       /\ Resolves(h, GetProp(h, cur, parts[i]), parts, i + 1)

\* What is left of the path set after the prefix read.
RestOfPath ==
  Join(SubSeq(Split(arg.path), Len(Split(arg.gpath)) + 1, Len(Split(arg.path))))

\* C1: round trip.  After setNestedValue(m, p, v) on a mapping m whose existing
\* intermediate segments of p are mappings (or missing), getNestedValue(m, p)
\* returns v itself, whatever v is (falsy included); and reading a proper
\* prefix of p returns the mapping that holds v at the rest of p.
C1_RoundTrip ==
  (pc = "setgot" /\ NoCollision(pre, x, Split(arg.path), 1)) =>
    /\ ~threw
    /\ arg.gpath = arg.path => res = arg.value
    /\ arg.gpath # arg.path =>
         IsMapping(heap, res) /\ getNestedValue(heap, res, RestOfPath) = arg.value

\* The scenario of the specification: on {}, set "a.b.a" to 1, read "a.b": {a: 1}.
C1_Witness ==
  /\ pc = "setgot"
  /\ TreeOf(pre, x) = EmptyObject
  /\ arg.path = Join(<<"a", "b", "a">>)
  /\ arg.value = One
  /\ arg.gpath = Join(<<"a", "b">>)
  /\ TreeOf(heap, res) = [arr |-> FALSE, ents |-> <<[key |-> "a", val |-> One]>>]

\* A falsy value stored three levels down through an existing mapping is read back.
C1_WitnessFalsy ==
  /\ pc = "setgot"
  /\ NoCollision(pre, x, Split(arg.path), 1)
  /\ HasOwn(pre, x, "a")
  /\ arg.path = Join(<<"a", "b", "a">>)
  /\ arg.gpath = arg.path
  /\ arg.value = Zero
  /\ res = Zero

\* C4: getNestedValue returns "absent" (undefined) whenever the path does not
\* resolve through containers: a segment is missing, or the value reached before
\* the last segment is a primitive or null.
C4_AbsentWhenBroken ==
  (pc = "got" /\ ~Resolves(heap, x, Split(arg.gpath), 1)) => res = Undefined

\* C10: when an intermediate segment of the path holds a primitive (truthy or
\* falsy), setNestedValue replaces it by a new mapping and stores the value, so
\* that getNestedValue on the same path returns the value.
C10_OverwritePolicy ==
  (/\ pc = "setgot"
   /\ arg.gpath = arg.path
   /\ PrimitiveCollision(pre, x, Split(arg.path), 1)) =>
     ~threw /\ res = arg.value

----------------------------------------------------------------------------
(* deepMerge *)

\* { ...target }: the own enumerable properties of target, in a plain object.
Spread(h, target) == [arr |-> FALSE, ents |-> h[target.a].ents]

\* A variant of the first statement that aliases instead of copying:
\* `const output = target`.
MergeOutputAlias(h, target) == [h |-> h, out |-> target.a]

\* const output = { ...target }: the heap with the new object, and its address.
MergeOutput(h, target) ==
  [h |-> Append(h, Spread(h, target)), out |-> Len(h) + 1]

\* The condition under which deepMerge recurses on a key.
MergeRecurses(h, target, source, key) ==
  LET sv == GetProp(h, source, key)
      tv == GetProp(h, target, key)
  IN /\ Truthy(sv)
     /\ TypeofObject(sv)
     /\ HasOwn(h, target, key)
     /\ Truthy(tv)
     /\ TypeofObject(tv)

RECURSIVE deepMerge(_, _, _)
RECURSIVE MergeLoop(_, _, _, _, _)
\* for (const key in source) { ... } from the i-th key on; returns the heap.
MergeLoop(h, out, target, source, i) ==
  LET keys == ObjectKeys(h[source.a])
  IN IF i > Len(keys) THEN h
     ELSE IF MergeRecurses(h, target, source, keys[i])
          THEN LET m == deepMerge(h, GetProp(h, target, keys[i]),
                                  GetProp(h, source, keys[i]))
               IN MergeLoop([m.h EXCEPT ![out] = PutProp(@, keys[i], m.v)],
                            out, target, source, i + 1)
          ELSE MergeLoop([h EXCEPT ![out] =
                            PutProp(@, keys[i], GetProp(h, source, keys[i]))],
                         out, target, source, i + 1)

deepMerge(h, target, source) ==
  LET o == MergeOutput(h, target)
  IN [h |-> MergeLoop(o.h, o.out, target, source, 1), v |-> Ref(o.out)]

----------------------------------------------------------------------------
(* Specification of deepMerge: two mappings (possibly the same one), merged. *)

MergeAtoms == {Null, One, Two}

MergeInner ==
  ObjectsOver(<<"a", "b">>, {One, Two}) \cup ArraysOver({One, Two}, MaxArrLen)

\* Three levels deep: {a: {a: {a: 1, b: 1}}} and its sub-shapes.
MergeDeep ==
  ObjectsOver(<<"a">>, ObjectsOver(<<"a">>, ObjectsOver(<<"a", "b">>, {One})))

MergeObjects ==
  ObjectsOver(<<"a", "b">>, MergeAtoms \cup MergeInner) \cup MergeDeep

InitMerge ==
  /\ \E t \in MergeObjects :
       LET b == Build(<<>>, t)
       IN \/ heap = b.h /\ x = b.v /\ y = b.v
          \/ \E s \in MergeObjects :
               LET c == Build(b.h, s) IN heap = c.h /\ x = b.v /\ y = c.v
  /\ res = Undefined
  /\ pc = "init"
  /\ arg = <<>>
  /\ pre = <<>>
  /\ threw = FALSE
  /\ TimeIdle

Merge ==
  /\ pc = "init"
  /\ LET m == deepMerge(heap, x, y)
     IN heap' = m.h /\ res' = m.v
  /\ pre' = heap
  /\ pc' = "merged"
  /\ UNCHANGED <<x, y, arg, threw>>
  /\ UNCHANGED timeVars

NextMerge == Merge

SpecMerge == InitMerge /\ [][NextMerge]_vars

\* C2: deepMerge mutates neither argument: every container that existed before
\* the call (so target, source and all they reach, at every level) is as it was,
\* and the result is a new object, neither target nor source.
C2_MergeNoMutation ==
  pc = "merged" =>
    /\ SubSeq(heap, 1, Len(pre)) = pre
    /\ TreeOf(heap, x) = TreeOf(pre, x)
    /\ TreeOf(heap, y) = TreeOf(pre, y)
    /\ IsRef(res) /\ res.a > Len(pre)
    /\ res # x /\ res # y

\* deepMerge({a: {b: 1}}, {a: {a: 2}}) has run: a nested merge, arguments intact.
C2_Witness ==
  /\ pc = "merged"
  /\ TreeOf(heap, x) =
       [arr |-> FALSE, ents |-> <<[key |-> "a", val |->
          [arr |-> FALSE, ents |-> <<[key |-> "b", val |-> One]>>]]>>]
  /\ TreeOf(heap, y) =
       [arr |-> FALSE, ents |-> <<[key |-> "a", val |->
          [arr |-> FALSE, ents |-> <<[key |-> "a", val |-> Two]>>]]>>]
  /\ TreeOf(heap, res) =
       [arr |-> FALSE, ents |-> <<[key |-> "a", val |->
          [arr |-> FALSE, ents |-> <<[key |-> "b", val |-> One],
                                     [key |-> "a", val |-> Two]>>]]>>]

\* C3: per key k of source, the result at k is the recursive merge of target[k]
\* and source[k] when k is in target and both are mappings, and is exactly
\* source[k] in every other case (arrays on either side included); a key of
\* target alone keeps target's value.
C3_PerKeyRule ==
  pc = "merged" =>
    /\ \A i \in 1..Len(pre[y.a].ents) :
         LET k == pre[y.a].ents[i].key
             sv == GetProp(pre, y, k)
             tv == GetProp(pre, x, k)
             rv == GetProp(heap, res, k)
         IN IF HasOwn(pre, x, k) /\ IsMapping(pre, tv) /\ IsMapping(pre, sv)
            THEN LET m == deepMerge(pre, tv, sv)
                 IN TreeOf(heap, rv) = TreeOf(m.h, m.v)
            ELSE rv = sv
    /\ \A i \in 1..Len(pre[x.a].ents) :
         LET k == pre[x.a].ents[i].key
         IN ~HasOwn(pre, y, k) => GetProp(heap, res, k) = GetProp(pre, x, k)

----------------------------------------------------------------------------
(* deepEqual *)

\* JavaScript booleans, as values.
Bool(b) == IF b THEN True ELSE False

\* keys2.includes(key)
Includes(keys, key) == \E i \in 1..Len(keys) : keys[i] = key

\* A variant without the length test: a one-sided containment check.
SameKeyCountDropped(keys1, keys2) == TRUE

\* keys1.length === keys2.length (the negation of the early return).
SameKeyCount(keys1, keys2) == Len(keys1) = Len(keys2)

RECURSIVE deepEqual(_, _, _)
RECURSIVE EqualLoop(_, _, _, _, _, _)
\* for (let key of keys1) { ... } from the i-th key on, then `return true`.
EqualLoop(h, obj1, obj2, keys1, keys2, i) ==
  IF i > Len(keys1) THEN TRUE
  ELSE IF ~Includes(keys2, keys1[i]) THEN FALSE
  ELSE IF ~deepEqual(h, GetProp(h, obj1, keys1[i]), GetProp(h, obj2, keys1[i]))
       THEN FALSE
  ELSE EqualLoop(h, obj1, obj2, keys1, keys2, i + 1)

deepEqual(h, obj1, obj2) ==
  IF StrictEq(obj1, obj2) THEN TRUE
  ELSE IF \/ ~TypeofObject(obj1)
          \/ obj1 = Null
          \/ ~TypeofObject(obj2)
          \/ obj2 = Null
       THEN FALSE
  ELSE LET keys1 == ObjectKeys(h[obj1.a])
           keys2 == ObjectKeys(h[obj2.a])
       IN IF ~SameKeyCount(keys1, keys2) THEN FALSE
          ELSE EqualLoop(h, obj1, obj2, keys1, keys2, 1)

----------------------------------------------------------------------------
(* deepClone: JSON.parse(JSON.stringify(obj)).  The JSON text is modelled as *)
(* its sequence of tokens.                                                  *)

Punct(c) == [t |-> "punct", s |-> c]
StrTok(c) == [t |-> "str", s |-> c]
Lit(c) == [t |-> "lit", s |-> c]

\* The JSON text of a primitive: NaN is written null, strings are quoted.
PrimToken(v) ==
  IF v = Str THEN StrTok("s")
  ELSE IF v = EmptyStr THEN StrTok("")
  ELSE IF v = NaN THEN Lit("null")
  ELSE Lit(v.p)

\* A variant that leaves out every falsy value (`if (!v) continue`).
OmittedFalsy(v) == ~Truthy(v)

\* Whether JSON.stringify leaves a property with this value out of an object.
Omitted(v) == v = Undefined

RECURSIVE Stringify(_, _)
RECURSIVE StringifyMembers(_, _, _, _)
RECURSIVE StringifyElems(_, _, _)
\* JSON.stringify of a value other than undefined.
Stringify(h, v) ==
  IF ~IsRef(v) THEN <<PrimToken(v)>>
  ELSE IF h[v.a].arr
       THEN <<Punct("[")>> \o StringifyElems(h, h[v.a], 1) \o <<Punct("]")>>
       ELSE <<Punct("{")>> \o StringifyMembers(h, h[v.a], 1, TRUE) \o <<Punct("}")>>

\* The members of an object from the i-th own key on; undefined values are left out.
StringifyMembers(h, c, i, first) ==
  IF i > Len(c.ents) THEN <<>>
  ELSE IF Omitted(c.ents[i].val) THEN StringifyMembers(h, c, i + 1, first)
  ELSE (IF first THEN <<>> ELSE <<Punct(",")>>)
       \o <<StrTok(c.ents[i].key), Punct(":")>>
       \o Stringify(h, c.ents[i].val)
       \o StringifyMembers(h, c, i + 1, FALSE)

\* The elements of an array from index i-1 on; undefined is written null, and
\* properties that are not indices are left out.
StringifyElems(h, c, i) ==
  IF i > Len(c.ents) \/ ~IsIndexKey(c.ents[i].key) THEN <<>>
  ELSE (IF i = 1 THEN <<>> ELSE <<Punct(",")>>)
       \o (IF c.ents[i].val = Undefined THEN <<Lit("null")>>
           ELSE Stringify(h, c.ents[i].val))
       \o StringifyElems(h, c, i + 1)

\* The value of a literal or string token.
TokenValue(tok) ==
  IF tok.t = "str" THEN (IF tok.s = "" THEN EmptyStr ELSE Str)
  ELSE Prim(tok.s)

ParseFail(h) == [h |-> h, v |-> Undefined, i |-> 0, ok |-> FALSE]

RECURSIVE ParseValue(_, _, _)
RECURSIVE ParseMembers(_, _, _, _, _)
RECURSIVE ParseElems(_, _, _, _, _)
\* JSON.parse from token i: the heap, the value, the next token, success.
ParseValue(h, toks, i) ==
  IF i > Len(toks) THEN ParseFail(h)
  ELSE IF toks[i].t \in {"lit", "str"}
       THEN [h |-> h, v |-> TokenValue(toks[i]), i |-> i + 1, ok |-> TRUE]
  ELSE IF toks[i] = Punct("{")
       THEN ParseMembers(Append(h, EmptyObject), Len(h) + 1, toks, i + 1, TRUE)
  ELSE IF toks[i] = Punct("[")
       THEN ParseElems(Append(h, [arr |-> TRUE, ents |-> <<>>]), Len(h) + 1,
                       toks, i + 1, TRUE)
  ELSE ParseFail(h)

\* The members of the object at address a, up to its closing brace.
ParseMembers(h, a, toks, i, first) ==
  IF i > Len(toks) THEN ParseFail(h)
  ELSE IF toks[i] = Punct("}")
       THEN [h |-> h, v |-> Ref(a), i |-> i + 1, ok |-> TRUE]
  ELSE IF ~first /\ toks[i] # Punct(",") THEN ParseFail(h)
  ELSE LET j == IF first THEN i ELSE i + 1
       IN IF j + 2 > Len(toks) \/ toks[j].t # "str" \/ toks[j + 1] # Punct(":")
          THEN ParseFail(h)
          ELSE LET r == ParseValue(h, toks, j + 2)
               IN IF ~r.ok THEN r
                  ELSE ParseMembers([r.h EXCEPT ![a] = PutProp(@, toks[j].s, r.v)],
                                    a, toks, r.i, FALSE)

\* The elements of the array at address a, up to its closing bracket.
ParseElems(h, a, toks, i, first) ==
  IF i > Len(toks) THEN ParseFail(h)
  ELSE IF toks[i] = Punct("]")
       THEN [h |-> h, v |-> Ref(a), i |-> i + 1, ok |-> TRUE]
  ELSE IF ~first /\ toks[i] # Punct(",") THEN ParseFail(h)
  ELSE LET r == ParseValue(h, toks, IF first THEN i ELSE i + 1)
       IN IF ~r.ok THEN r
          ELSE ParseElems([r.h EXCEPT ![a] =
                             PutProp(@, IndexKeys[Len(r.h[a].ents) + 1], r.v)],
                          a, toks, r.i, FALSE)

\* JSON.parse(text): raises a SyntaxError unless the whole text is one value.
JSONparse(h, toks) ==
  LET r == ParseValue(h, toks, 1)
  IN IF r.ok /\ r.i = Len(toks) + 1
     THEN [h |-> r.h, v |-> r.v, threw |-> FALSE]
     ELSE [h |-> h, v |-> Undefined, threw |-> TRUE]

\* A variant that copies one level only: `{ ...obj }` (`[...obj]` for an array).
deepCloneShallow(h, obj) ==
  IF ~IsRef(obj) THEN [h |-> h, v |-> obj, threw |-> FALSE]
  ELSE [h |-> Append(h, h[obj.a]), v |-> Ref(Len(h) + 1), threw |-> FALSE]

\* JSON.stringify(undefined) is undefined, which JSON.parse reads as the text
\* "undefined": a SyntaxError.
deepClone(h, obj) ==
  IF obj = Undefined THEN [h |-> h, v |-> Undefined, threw |-> TRUE]
  ELSE JSONparse(h, Stringify(h, obj))

----------------------------------------------------------------------------
(* Specification of deepEqual: two values (possibly the same reference),     *)
(* compared one way and then the other.                                      *)

EqualAtoms == {Null, One}

EqualInner ==
  EqualAtoms \cup ObjectsOver(<<"0", "a">>, EqualAtoms)
             \cup ArraysOver(EqualAtoms, MaxArrLen)

EqualSmall ==
  EqualAtoms \cup ObjectsOver(<<"a">>, EqualAtoms) \cup ArraysOver({One}, MaxArrLen)

\* Objects over the keys a, b are taken in both insertion orders.
EqualValues ==
  EqualInner \cup ObjectsOver(<<"a", "b">>, EqualSmall)
             \cup ObjectsOver(<<"b", "a">>, EqualSmall)
             \cup ObjectsOver(<<"0">>, EqualInner)
             \cup ArraysOver(EqualSmall, MaxArrLen)

InitEqual ==
  /\ \E t \in EqualValues :
       LET b == Build(<<>>, t)
       IN \/ heap = b.h /\ x = b.v /\ y = b.v
          \/ \E s \in EqualValues :
               LET c == Build(b.h, s) IN heap = c.h /\ x = b.v /\ y = c.v
  /\ res = Undefined
  /\ pc = "init"
  /\ arg = Undefined
  /\ pre = <<>>
  /\ threw = FALSE
  /\ TimeIdle

Equal ==
  /\ pc = "init"
  /\ res' = Bool(deepEqual(heap, x, y))
  /\ pc' = "equal"
  /\ UNCHANGED <<heap, x, y, arg, pre, threw>>
  /\ UNCHANGED timeVars

EqualSwapped ==
  /\ pc = "equal"
  /\ arg' = Bool(deepEqual(heap, y, x))
  /\ pc' = "swapped"
  /\ UNCHANGED <<heap, x, y, res, pre, threw>>
  /\ UNCHANGED timeVars

NextEqual == Equal \/ EqualSwapped

SpecEqual == InitEqual /\ [][NextEqual]_vars

\* The keys a structure may carry, in one fixed order that Object.keys allows.
KeyOrder == IndexKeys \o <<"a", "b">>

\* The same structure with the keys of every mapping stored in KeyOrder.
RECURSIVE Canon(_)
Canon(t) ==
  IF IsLeaf(t) THEN t
  ELSE LET has(k) == \E i \in 1..Len(t.ents) : t.ents[i].key = k
           val(k) == t.ents[CHOOSE i \in 1..Len(t.ents) : t.ents[i].key = k].val
           ks == SelectSeq(KeyOrder, has)
       IN [arr |-> t.arr,
           ents |-> [i \in 1..Len(ks) |-> [key |-> ks[i], val |-> Canon(val(ks[i]))]]]

\* deepEqual of the two arguments rebuilt with their keys in KeyOrder.
EqualOfCanon ==
  LET b == Build(heap, Canon(TreeOf(heap, x)))
      c == Build(b.h, Canon(TreeOf(heap, y)))
  IN Bool(deepEqual(c.h, b.v, c.v))

\* C5: deepEqual(a, b) = deepEqual(b, a) for all values a, b (primitives, null,
\* arrays, mappings, and mixes), and the result does not depend on the order in
\* which the mappings store their keys.
C5_EqualSymmetric ==
  /\ pc = "swapped" => arg = res
  /\ pc \in {"equal", "swapped"} => res = EqualOfCanon

\* An array against a mapping with the same index key, compared both ways.
C5_Witness ==
  /\ pc = "swapped"
  /\ TreeOf(heap, x) = [arr |-> TRUE, ents |-> <<[key |-> "0", val |-> One]>>]
  /\ TreeOf(heap, y) = [arr |-> FALSE, ents |-> <<[key |-> "0", val |-> One]>>]
  /\ res = True
  /\ arg = True

----------------------------------------------------------------------------
(* Specification of deepClone: a value is cloned; the clone is compared with *)
(* the original, and either of the two is then written by setNestedValue.    *)

CloneInner ==
  ObjectsOver(<<"a", "b">>, {One, Undefined})
    \cup ArraysOver({One, Undefined}, MaxArrLen)

CloneSmall ==
  {Null, NaN, [arr |-> FALSE, ents |-> <<[key |-> "a", val |-> Str]>>],
   [arr |-> TRUE, ents |-> <<[key |-> "0", val |-> NaN]>>]}

CloneDeep ==
  ObjectsOver(<<"a">>, ObjectsOver(<<"a">>, ObjectsOver(<<"a", "b">>, {Zero})))

CloneValues ==
  {Null, Zero, EmptyStr, Str, True, False, NaN, Undefined}
    \cup CloneInner
    \cup ObjectsOver(<<"a", "b">>, {Null, EmptyStr, NaN} \cup CloneInner)
    \cup ArraysOver(CloneSmall, MaxArrLen)
    \cup CloneDeep

ClonePaths == PathsOver({"a", "b"}, 2) \cup {Join(<<"a", "a", "a">>)}

\* Serializable without loss: strings, finite numbers, booleans, null, arrays
\* and mappings of those.
RECURSIVE Serializable(_)
Serializable(t) ==
  IF IsLeaf(t) THEN t \notin {NaN, Undefined}
  ELSE \A i \in 1..Len(t.ents) : Serializable(t.ents[i].val)

InitClone ==
  /\ \E t \in CloneValues :
       LET b == Build(<<>>, t) IN heap = b.h /\ x = b.v
  /\ y = Undefined
  /\ res = Undefined
  /\ pc = "init"
  /\ arg = [xt |-> Undefined, yt |-> Undefined, sets |-> 0]
  /\ pre = <<>>
  /\ threw = FALSE
  /\ TimeIdle

\* c = deepClone(x)
Clone ==
  /\ pc = "init"
  /\ LET r == deepClone(heap, x)
     IN /\ heap' = r.h
        /\ y' = r.v
        /\ threw' = r.threw
        /\ arg' = [arg EXCEPT !.xt = TreeOf(heap, x), !.yt = TreeOf(r.h, r.v)]
  /\ pre' = heap
  /\ pc' = "cloned"
  /\ UNCHANGED <<x, res>>
  /\ UNCHANGED timeVars

\* deepEqual(x, c)
CompareClone ==
  /\ pc = "cloned"
  /\ ~threw
  /\ res' = Bool(deepEqual(heap, x, y))
  /\ pc' = "compared"
  /\ UNCHANGED <<heap, x, y, arg, pre, threw>>
  /\ UNCHANGED timeVars

\* setNestedValue(c, path, 1)
SetOnClone ==
  /\ pc \in {"cloned", "written"}
  /\ IsRef(y)
  /\ arg.sets < MaxSets
  /\ \E path \in ClonePaths, strict \in BOOLEAN :
       LET r == setNestedValue(heap, y, path, One, strict)
       IN /\ heap' = r.h
          /\ arg' = [arg EXCEPT !.yt = TreeOf(r.h, y), !.sets = @ + 1]
  /\ pc' = "written"
  /\ UNCHANGED <<x, y, res, pre, threw>>
  /\ UNCHANGED timeVars

\* setNestedValue(x, path, 1)
SetOnOriginal ==
  /\ pc \in {"cloned", "written"}
  /\ IsRef(y)
  /\ arg.sets < MaxSets
  /\ \E path \in ClonePaths, strict \in BOOLEAN :
       LET r == setNestedValue(heap, x, path, One, strict)
       IN /\ heap' = r.h
          /\ arg' = [arg EXCEPT !.xt = TreeOf(r.h, x), !.sets = @ + 1]
  /\ pc' = "written"
  /\ UNCHANGED <<x, y, res, pre, threw>>
  /\ UNCHANGED timeVars

NextClone == Clone \/ CompareClone \/ SetOnClone \/ SetOnOriginal

SpecClone == InitClone /\ [][NextClone]_vars

\* C6: for every serializable x (strings, finite numbers, booleans, null, arrays,
\* string-keyed mappings, at any depth), deepClone(x) returns and
\* deepEqual(x, deepClone(x)) is true.
C6_CloneEqual ==
  /\ (pc = "cloned" /\ Serializable(arg.xt)) => ~threw
  /\ (pc = "compared" /\ Serializable(arg.xt)) => res = True

\* A three-level serializable mapping was cloned and compared.
C6_Witness ==
  /\ pc = "compared"
  /\ Serializable(arg.xt)
  /\ arg.xt = [arr |-> FALSE, ents |-> <<[key |-> "a", val |->
        [arr |-> FALSE, ents |-> <<[key |-> "a", val |->
           [arr |-> FALSE, ents |-> <<[key |-> "a", val |-> Zero],
                                      [key |-> "b", val |-> Zero]>>]]>>]]>>]
  /\ res = True

\* C7: the clone of a mapping shares no container with it at any level; so
\* whatever setNestedValue calls are made on the clone leave the original as it
\* was, and calls on the original leave the clone as it was.
C7_CloneIndependent ==
  (pc \in {"cloned", "written"} /\ IsRef(y)) =>
    /\ Reach(heap, x) \cap Reach(heap, y) = {}
    /\ y.a > Len(pre)
    /\ TreeOf(heap, x) = arg.xt
    /\ TreeOf(heap, y) = arg.yt

\* Two writes were made after cloning a nested mapping, and the clone now
\* differs from the original below the top level.
C7_Witness ==
  /\ pc = "written"
  /\ arg.sets = 2
  /\ IsRef(GetProp(heap, x, "a"))
  /\ IsRef(GetProp(heap, y, "a"))
  /\ TreeOf(heap, GetProp(heap, x, "a")) # TreeOf(heap, GetProp(heap, y, "a"))

----------------------------------------------------------------------------
(* The platform's timers.  setTimeout(cb, ms) enters a timeout that becomes  *)
(* due ms later; a due timeout runs when the event loop gets to it, which    *)
(* may be later than its due time; clearTimeout removes a pending timeout    *)
(* and ignores any other handle.                                             *)

\* The arguments a wrapper is called with.
ArgValues == {1, 2}

\* A variant of the due time that ignores the delay.
TimerDueNow(t, ms) == t

\* The time at which a timeout set at time t for ms milliseconds becomes due.
TimerDue(t, ms) == t + ms

\* The handle setTimeout returns next: handles are never reused.
NextHandle == Len(log) + 1

\* A variant of clearTimeout that leaves the timeout pending.
ClearTimeoutNoop(ts, id) == ts

ClearTimeout(ts, id) == {t \in ts : t.id # id}

Calls == SelectSeq(log, LAMBDA e : e.e = "call")

\* Time passes.
Tick ==
  /\ now < MaxTime
  /\ now' = now + 1
  /\ UNCHANGED <<timers, debounceTimer, inThrottle, wait, log>>
  /\ UNCHANGED objVars

InitTime ==
  /\ now = 0
  /\ timers = {}
  /\ debounceTimer = 0
  /\ inThrottle = FALSE
  /\ wait \in 1..MaxWait
  /\ log = <<>>
  /\ ObjIdle

----------------------------------------------------------------------------
(* debounce *)

\* The wrapper returned by debounce(func, wait), called with args.  (Calls are
\* made only while the timeout they set falls within the clock's range.)
DebouncedCall ==
  /\ Len(Calls) < MaxCalls
  /\ TimerDue(now, wait) <= MaxTime
  /\ \E args \in ArgValues :
       /\ timers' = ClearTimeout(timers, debounceTimer)
                      \cup {[id |-> NextHandle, due |-> TimerDue(now, wait),
                             args |-> args]}
       /\ log' = Append(log, [e |-> "call", at |-> now, args |-> args])
  /\ debounceTimer' = NextHandle
  /\ UNCHANGED <<now, inThrottle, wait>>
  /\ UNCHANGED objVars

\* A due timeout runs: () => func(...args).
DebounceFire ==
  /\ \E t \in timers :
       /\ t.due <= now
       /\ \A u \in timers : u.due >= t.due
       /\ timers' = timers \ {t}
       /\ log' = Append(log, [e |-> "invoke", at |-> now, args |-> t.args])
  /\ UNCHANGED <<now, debounceTimer, inThrottle, wait>>
  /\ UNCHANGED objVars

NextDebounce == DebouncedCall \/ DebounceFire \/ Tick

\* The event loop runs a due timeout, and time passes.
SpecDebounce ==
  /\ InitTime
  /\ [][NextDebounce]_vars
  /\ WF_vars(DebounceFire)
  /\ WF_vars(Tick)

\* The index of the last wrapper call before position j of the log, 0 if none.
LastCallBefore(j) ==
  IF \E i \in 1..(j - 1) : log[i].e = "call"
  THEN CHOOSE i \in 1..(j - 1) :
         log[i].e = "call" /\ \A m \in (i + 1)..(j - 1) : log[m].e # "call"
  ELSE 0

DebounceSafe ==
  /\ Cardinality(timers) <= 1
  /\ \A t \in timers :
       /\ Len(log) > 0
       /\ log[Len(log)].e = "call"
       /\ t.args = log[Len(log)].args
       /\ t.due = log[Len(log)].at + wait
  /\ (Len(log) > 0 /\ log[Len(log)].e = "call") => timers # {}
  /\ \A j \in 1..Len(log) :
       log[j].e = "invoke" =>
         /\ j > 1
         /\ log[j - 1].e = "call"
         /\ log[j].args = log[j - 1].args
         /\ log[j].at >= log[j - 1].at + wait

\* C8: at most one timeout is pending, and it is the one the last wrapper call
\* set (for `wait` after that call, with that call's arguments), every earlier
\* one having been cancelled; func is invoked only by that timeout, hence never
\* sooner than `wait` after the most recent wrapper call, with the last call's
\* arguments and once per burst; and every burst does end in an invocation.
C8_Debounce ==
  /\ []DebounceSafe
  /\ (timers # {}) ~> (Len(log) > 0 /\ log[Len(log)].e = "invoke")

\* A burst of two calls at different times with different arguments was
\* followed by one invocation, with the second call's arguments.
C8_Witness ==
  /\ Len(log) = 3
  /\ log[1].e = "call" /\ log[2].e = "call" /\ log[3].e = "invoke"
  /\ log[1].at < log[2].at
  /\ log[1].args # log[2].args
  /\ log[3].args = log[2].args
  /\ timers = {}

----------------------------------------------------------------------------
(* throttle *)

\* The wrapper returned by throttle(func, wait), called with args.
ThrottledCall ==
  /\ Len(Calls) < MaxCalls
  /\ \E args \in ArgValues :
       IF ~inThrottle
       THEN /\ log' = log \o <<[e |-> "call", at |-> now, args |-> args],
                               [e |-> "invoke", at |-> now, args |-> args]>>
            /\ inThrottle' = TRUE
            /\ timers' = timers \cup {[id |-> NextHandle,
                                       due |-> TimerDue(now, wait)]}
       ELSE /\ log' = Append(log, [e |-> "call", at |-> now, args |-> args])
            /\ UNCHANGED <<inThrottle, timers>>
  /\ UNCHANGED <<now, debounceTimer, wait>>
  /\ UNCHANGED objVars

\* A due timeout runs: () => (inThrottle = false).
ThrottleFire ==
  /\ \E t \in timers :
       /\ t.due <= now
       /\ timers' = timers \ {t}
       /\ log' = Append(log, [e |-> "reset", at |-> now, args |-> 0])
  /\ inThrottle' = FALSE
  /\ UNCHANGED <<now, debounceTimer, wait>>
  /\ UNCHANGED objVars

NextThrottle == ThrottledCall \/ ThrottleFire \/ Tick

SpecThrottle ==
  /\ InitTime
  /\ [][NextThrottle]_vars
  /\ WF_vars(ThrottleFire)
  /\ WF_vars(Tick)

\* Whether the wrapper call at position j of the log invoked func.
Ran(j) == j < Len(log) /\ log[j + 1].e = "invoke"

\* The index of the last invocation before position j of the log, 0 if none.
LastInvokeBefore(j) ==
  IF \E i \in 1..(j - 1) : log[i].e = "invoke"
  THEN CHOOSE i \in 1..(j - 1) :
         log[i].e = "invoke" /\ \A m \in (i + 1)..(j - 1) : log[m].e # "invoke"
  ELSE 0

\* Every invocation of func is made by a wrapper call, at once and with its
\* arguments; and any two invocations are at least `wait` apart.
ThrottleInvocations ==
  /\ \A j \in 1..Len(log) :
       log[j].e = "invoke" =>
         /\ j > 1
         /\ log[j - 1].e = "call"
         /\ log[j - 1].at = log[j].at
         /\ log[j - 1].args = log[j].args
  /\ \A i, j \in 1..Len(log) :
       (i < j /\ log[i].e = "invoke" /\ log[j].e = "invoke") =>
         log[j].at >= log[i].at + wait

\* C9 as stated: the first wrapper call invokes func; a call made before `wait`
\* has elapsed since the last invocation of func does not; a call made after
\* `wait` has elapsed since the last invocation does (a call made at the very
\* instant the window ends may go either way); invocations are immediate and
\* at least `wait` apart.
C9_ThrottleByElapsedTime ==
  /\ ThrottleInvocations
  /\ \A j \in 1..Len(log) :
       log[j].e = "call" =>
         /\ LastInvokeBefore(j) = 0 => Ran(j)
         /\ (/\ LastInvokeBefore(j) > 0
             /\ log[j].at < log[LastInvokeBefore(j)].at + wait) => ~Ran(j)
         /\ (/\ LastInvokeBefore(j) > 0
             /\ log[j].at > log[LastInvokeBefore(j)].at + wait) => Ran(j)

\* C9 as it holds: a wrapper call invokes func exactly when it is the first call
\* or the timeout set by the last invocation has run since (which is never
\* before `wait` has elapsed since that invocation); func is invoked at once and
\* by such a call only, so any two invocations are at least `wait` apart.
C9_ThrottleByTimer ==
  /\ ThrottleInvocations
  /\ \A j \in 1..Len(log) :
       /\ log[j].e = "call" =>
            (Ran(j) <=> \/ LastInvokeBefore(j) = 0
                        \/ \E m \in (LastInvokeBefore(j) + 1)..(j - 1) :
                             log[m].e = "reset")
       /\ log[j].e = "reset" =>
            /\ LastInvokeBefore(j) > 0
            /\ log[j].at >= log[LastInvokeBefore(j)].at + wait
  /\ inThrottle <=> timers # {}
  /\ Cardinality(timers) <= 1

\* A call ran, a call inside the window was suppressed, the window's timeout
\* ran, and the next call ran.
C9_Witness ==
  /\ Len(log) = 6
  /\ log[1].e = "call" /\ log[2].e = "invoke"
  /\ log[3].e = "call" /\ log[3].at < log[1].at + wait
  /\ log[4].e = "reset"
  /\ log[5].e = "call" /\ log[6].e = "invoke"
  /\ log[6].at >= log[2].at + wait

====
